---- MODULE Spec2Model ----
(***************************************************************************)
(* A model of milfbleusky.py: one run of main() (resolve feeds, load       *)
(* stoplists, collect and filter feed items, sort, rate-limited repost     *)
(* loop, ledger save), the ledger file on a small file system, the page    *)
(* fetchers and the filter chain.                                          *)
(*                                                                         *)
(* Strings that the program strips, sorts or compares character by         *)
(* character (ledger lines, uris) are sequences of atoms: SP is a          *)
(* whitespace character, any other number a non-blank piece of text.       *)
(***************************************************************************)
EXTENDS Integers, Sequences, FiniteSets, TLC

VARIABLES
    \* ---- the process running main()
    pc,            \* position of main(): idle, resolve, stoplists, collect, loop, save, replace, done, exit, crashed, killed
    cfg,           \* module-level configuration read from the environment (lines 10-19)
    cutoff,        \* main: cutoff
    done,          \* main: done, the in-memory ledger
    feed_uris,     \* main: feed_uris
    stop_dids,     \* main: stop_dids
    candidates,    \* main: candidates
    fi,            \* index of the next feed of `for feed_uri in feed_uris`
    ci,            \* index of the next candidate of `for c in candidates`
    reposted,      \* main: reposted
    liked,         \* main: liked
    followed,      \* main: followed
    per_user,      \* main: per_user
    \* ---- the file system
    dir,           \* file name -> inode number, NoIno when the name does not exist
    inodes,        \* inode number -> content, a sequence of lines
    \* ---- history of the run (not program state)
    run,           \* number of runs started
    loaded,        \* the ledger as load_repost_log returned it in this run
    fetched,       \* the uris of the loaded ledger that the feeds returned in this run
    attempts,      \* the repost calls of this run, in order: candidate, its number, outcome
    last,          \* the like and follow calls of the latest pass through the loop body
    savedEarlier,  \* uris reposted by earlier runs that reached the end of save_repost_log
    old,           \* content at the ledger path when the save began
    netlog,        \* the page fetches of this run: which calls were made, which raised
    \* ---- a concurrent reader of the ledger path (load_repost_log in another process)
    rpc,           \* off, idle, reading, read
    rino,          \* the inode its open file refers to
    rpos,          \* lines it has read
    racc,          \* the set it has built
    \* ---- one call of fetch_feed_items or fetch_list_member_dids
    fpc,           \* off, feed, list, returned, raised
    flimits,       \* FEED_MAX_ITEMS and LIST_MEMBER_LIMIT
    fitems,        \* fetch_feed_items: items
    fmembers,      \* fetch_list_member_dids: members
    fcursor,       \* cursor
    fresult,       \* what the call returned
    \* ---- one item in front of the filter chain
    feed_item      \* main: item of `for item in items`

procVars == <<pc, cfg, cutoff, done, feed_uris, stop_dids, candidates, fi, ci,
              reposted, liked, followed, per_user>>
fsVars == <<dir, inodes>>
histVars == <<run, loaded, fetched, attempts, last, savedEarlier, old, netlog>>
readerVars == <<rpc, rino, rpos, racc>>
fetchVars == <<fpc, flimits, fitems, fmembers, fcursor, fresult>>
sideVars == <<fetchVars, feed_item>>
vars == <<procVars, fsVars, histVars, readerVars, sideVars>>

----------------------------------------------------------------------------
\* Bounds of the model

\* runs of main() in a row
MaxRuns == 2
\* items one fetch_feed_items call hands to main()
MaxFeedLen == 2
\* candidates one run collects
MaxCandidates == 3
\* MAX_PER_RUN and MAX_PER_USER range over 1..MaxCap
MaxCap == 2
\* lines the write buffer of the ledger file holds when a run saves
WholeBuffer == 8

----------------------------------------------------------------------------
\* Strings

SP == 0

RECURSIVE LStrip(_)
LStrip(s) == IF s # <<>> /\ Head(s) = SP THEN LStrip(Tail(s)) ELSE s

RECURSIVE RStrip(_)
RStrip(s) == IF s # <<>> /\ s[Len(s)] = SP THEN RStrip(SubSeq(s, 1, Len(s) - 1)) ELSE s

\* str.strip()
Strip(s) == RStrip(LStrip(s))

\* s < t for strings, as sorted() compares them
RECURSIVE StrLess(_, _)
StrLess(s, t) ==
    IF t = <<>> THEN FALSE
    ELSE IF s = <<>> THEN TRUE
    ELSE IF Head(s) # Head(t) THEN Head(s) < Head(t)
    ELSE StrLess(Tail(s), Tail(t))

\* sorted(uris)
RECURSIVE Sorted(_)
Sorted(S) ==
    IF S = {} THEN <<>>
    ELSE LET m == CHOOSE x \in S : \A y \in S \ {x} : StrLess(x, y)
         IN  <<m>> \o Sorted(S \ {m})

Range(s) == {s[i] : i \in DOMAIN s}

\* the string of a post uri: one non-blank piece of text
Uri(n) == <<n>>

----------------------------------------------------------------------------
\* The file system: names, inodes, and the ledger's two operations

NoIno == 0
Inos == 1..3
\* REPOST_LOG_FILE
LedgerPath == "reposted.txt"
TmpSamePath(path) == path
\* tmp = path + ".tmp"
TmpPath(path) == "reposted.txt.tmp"
Names == {LedgerPath, "reposted.txt.tmp"}

\* os.path.exists(path)
Exists(d, name) == d[name] # NoIno

\* the inodes a name or an open handle refers to
InUse(d, held) == {d[n] : n \in Names} \cup held

FreshIno(d, held) == CHOOSE i \in Inos : i \notin InUse(d, held)

\* what is left of the inode table once unreferenced inodes are gone
Gc(d, ino, held) == [i \in Inos |-> IF i \in InUse(d, held) THEN ino[i] ELSE <<>>]

\* the set a reader builds from lines: {line.strip() for line in f if line.strip()}
LinesToSet(lines) == {Strip(l) : l \in {x \in Range(lines) : Strip(x) # <<>>}}

LoadDropsStrip(d, ino, path) ==
    IF ~Exists(d, path) THEN {} ELSE {l \in Range(ino[d[path]]) : l # <<>>}
\* load_repost_log(path)
load_repost_log(d, ino, path) ==
    IF ~Exists(d, path) THEN {} ELSE LinesToSet(ino[d[path]])

\* save_repost_log writes sorted(uris), one line each
SavedLinesSkipFirst(uris) == IF uris = {} THEN <<>> ELSE Tail(Sorted(uris))
SavedLines(uris) == Sorted(uris)

----------------------------------------------------------------------------
\* Feed items and the filter chain

\* a timestamp field of the record or of the post: absent (None or ""), 
\* not ISO 8601, ISO 8601 without an offset (naive), ISO 8601 with one (aware)
NoTime == [k |-> "none", t |-> 0]
BadTime == [k |-> "bad", t |-> 0]
Naive(t) == [k |-> "naive", t |-> t]
Aware(t) == [k |-> "aware", t |-> t]

\* "createdAt", "indexedAt", "created_at", "timestamp"
Attrs == 1..4

\* getattr(record, attr, None) or getattr(post, attr, None)
AttrVal(rec_ts, post_ts, a) == IF rec_ts[a].k # "none" THEN rec_ts[a] ELSE post_ts[a]

RECURSIVE parse_from(_, _, _)
parse_from(rec_ts, post_ts, a) ==
    IF a \notin Attrs THEN NoTime
    ELSE LET val == AttrVal(rec_ts, post_ts, a)
         IN  IF val.k \in {"naive", "aware"} THEN val
             ELSE parse_from(rec_ts, post_ts, a + 1)

\* parse_time(record, post)
parse_time(rec_ts, post_ts) == parse_from(rec_ts, post_ts, 1)

\* record.embed: None, or an object whose attributes may be set
NoEmbed == [present |-> FALSE, images |-> FALSE, video |-> FALSE,
            record |-> FALSE, recordWithMedia |-> FALSE]
Embed(img, vid, rcd, rwm) == [present |-> TRUE, images |-> img, video |-> vid,
                              record |-> rcd, recordWithMedia |-> rwm]

\* has_media(record)
has_media(embed) ==
    IF ~embed.present THEN FALSE
    ELSE IF embed.images THEN TRUE
    ELSE IF embed.video THEN TRUE
    ELSE FALSE

\* is_quote_post(record)
is_quote_post(embed) ==
    IF ~embed.present THEN FALSE
    ELSE embed.record \/ embed.recordWithMedia

\* post.author.did when there is none
NoDid == "none"

NeverInLedger(uri, dn) == FALSE
\* uri in done
InLedger(uri, dn) == uri \in dn

FilterNoAuthorCheck(item, dn, stop, cut) ==
    IF InLedger(item.uri, dn) THEN "skip"
    ELSE IF item.reason THEN "skip"
    ELSE IF item.reply THEN "skip"
    ELSE IF is_quote_post(item.embed) THEN "skip"
    ELSE IF ~has_media(item.embed) THEN "skip"
    ELSE LET created_dt == parse_time(item.rec_ts, item.post_ts)
         IN  IF created_dt.k = "none" THEN "skip"
             ELSE IF created_dt.k = "naive" THEN "raise"
             ELSE IF created_dt.t < cut THEN "skip"
             ELSE IF item.author \in stop THEN "skip"
             ELSE "candidate"
\* the body of `for item in items`: "skip" is continue, "candidate" is the append,
\* "raise" is the TypeError of comparing a naive datetime with the aware cutoff
filter_item(item, dn, stop, cut) ==
    IF InLedger(item.uri, dn) THEN "skip"
    ELSE IF item.reason THEN "skip"
    ELSE IF item.reply THEN "skip"
    ELSE IF is_quote_post(item.embed) THEN "skip"
    ELSE IF ~has_media(item.embed) THEN "skip"
    ELSE LET created_dt == parse_time(item.rec_ts, item.post_ts)
         IN  IF created_dt.k = "none" THEN "skip"
             ELSE IF created_dt.k = "naive" THEN "raise"
             ELSE IF created_dt.t < cut THEN "skip"
             ELSE IF item.author = NoDid THEN "skip"
             ELSE IF item.author \in stop THEN "skip"
             ELSE "candidate"

\* the dict appended to candidates
Candidate(item) ==
    [uri |-> item.uri, author_did |-> item.author,
     created |-> parse_time(item.rec_ts, item.post_ts).t]

\* `for item in items` over one feed's items: the candidates after it, or the raise
RECURSIVE filter_items(_, _, _, _, _)
filter_items(items, cands, dn, stop, cut) ==
    IF items = <<>> THEN [raised |-> FALSE, cands |-> cands]
    ELSE LET r == filter_item(Head(items), dn, stop, cut)
         IN  IF r = "raise" THEN [raised |-> TRUE, cands |-> cands]
             ELSE filter_items(Tail(items),
                               IF r = "candidate"
                               THEN Append(cands, Candidate(Head(items)))
                               ELSE cands,
                               dn, stop, cut)

\* one insertion of a stable sort: c goes behind every element whose key is not greater
RECURSIVE Insert(_, _)
Insert(c, s) ==
    IF s = <<>> THEN <<c>>
    ELSE IF Head(s).created <= c.created THEN <<Head(s)>> \o Insert(c, Tail(s))
    ELSE <<c>> \o s

RECURSIVE SortFrom(_, _)
SortFrom(sorted, rest) ==
    IF rest = <<>> THEN sorted ELSE SortFrom(Insert(Head(rest), sorted), Tail(rest))

RECURSIVE Reverse(_)
Reverse(s) == IF s = <<>> THEN <<>> ELSE Append(Reverse(Tail(s)), Head(s))

SortUnstable(cands) == SortFrom(<<>>, Reverse(cands))
\* candidates.sort(key=lambda x: x["created"])
sort_candidates(cands) == SortFrom(<<>>, cands)

----------------------------------------------------------------------------
\* The world one run meets: configuration, feed content, network outcomes

\* HOURS_BACK
HOURS_BACK == 3
\* datetime.now(timezone.utc) at the start of a run
Nows == {7}

\* MAX_PER_RUN, MAX_PER_USER, FOLLOW_ON_REPOST as read from the environment
Configs == [MAX_PER_RUN : 1..MaxCap, MAX_PER_USER : 1..MaxCap, FOLLOW_ON_REPOST : BOOLEAN]
NoCfg == [MAX_PER_RUN |-> 0, MAX_PER_USER |-> 0, FOLLOW_ON_REPOST |-> FALSE]

Img == Embed(TRUE, FALSE, FALSE, FALSE)

\* an original post with an image, created at t
Post(n, au, t) ==
    [uri |-> Uri(n), reason |-> FALSE, reply |-> FALSE, embed |-> Img,
     rec_ts |-> <<Aware(t), NoTime, NoTime, NoTime>>,
     post_ts |-> <<NoTime, Aware(t), NoTime, NoTime>>,
     author |-> au]

\* no item
NoItem == [Post(0, NoDid, 0) EXCEPT !.embed = NoEmbed]

\* cursor = None
NoCursor == 0

\* what the feeds may return: two posts of a1, one of a2 and the same post surfaced
\* as a boost, one of a3 (an account a stoplist may hold) created at the instant of
\* a1's first, and a post whose createdAt carries no offset
FeedPool ==
    { Post(1, "a1", 5), Post(2, "a1", 6), Post(3, "a2", 4),
      [Post(3, "a2", 4) EXCEPT !.reason = TRUE],
      Post(4, "a3", 5),
      [Post(5, "a2", 6) EXCEPT !.rec_ts = <<Naive(6), NoTime, NoTime, NoTime>>] }

SeqsUpTo(S, n) == UNION {[1..k -> S] : k \in 0..n}

\* what one fetch_feed_items call may return
FeedResults(pool) == SeqsUpTo(pool, MaxFeedLen)

\* what the stoplists may hold together
StoplistResults == SUBSET {"a3"}

\* FEED_i_LINK values: an at:// generator uri, a bsky.app URL whose actor is a
\* handle, anything else
AtLink(f) == [kind |-> "at", feed |-> f]
UrlLink(f) == [kind |-> "url", feed |-> f]
BadLink == [kind |-> "bad", feed |-> "none"]

\* the configured feed links, in order (the empty ones left out)
FeedConfigs ==
    { <<>>, <<BadLink>>, <<AtLink("f1")>>, <<UrlLink("f1"), AtLink("f1")>> }

\* normalize_feed_uri(client, link); resolves: whether resolve_handle finds the actor
normalize_feed_uri(link, resolves) ==
    IF link.kind = "at" THEN link.feed
    ELSE IF link.kind # "url" THEN "none"
    ELSE IF ~resolves THEN "none"
    ELSE link.feed

\* the loop over FEED_1_LINK .. FEED_10_LINK
RECURSIVE resolve_feeds(_, _, _)
resolve_feeds(links, res, i) ==
    IF i > Len(links) THEN <<>>
    ELSE LET uri == normalize_feed_uri(links[i], res[i])
         IN  (IF uri # "none" THEN <<uri>> ELSE <<>>) \o resolve_feeds(links, res, i + 1)

\* the ledger file before the first run, when there is one: hand-edited (padding
\* and a blank line), or unsorted
InitLedgers ==
    { << <<SP, 1, SP>>, <<>> >>,
      << Uri(3), Uri(1) >> }

----------------------------------------------------------------------------
\* main()

Running == {"resolve", "stoplists", "collect", "loop", "save", "write", "replace"}
Stopped == {"idle", "done", "exit", "crashed", "killed"}

Held == IF rpc = "reading" THEN {rino} ELSE {}

\* no like, no get_profile, no follow
NoCalls == [ix |-> 0, uri |-> <<>>, like |-> "not called", follow |-> "not called"]

\* the uris whose repost succeeded
Reposted(as) == {as[i].c.uri : i \in {j \in DOMAIN as : as[j].ok}}

\* the process's memory once it is gone
Cleared ==
    /\ cfg' = NoCfg
    /\ cutoff' = 0
    /\ done' = {}
    /\ feed_uris' = <<>>
    /\ stop_dids' = {}
    /\ candidates' = <<>>
    /\ fi' = 1
    /\ ci' = 1
    /\ reposted' = 0
    /\ liked' = 0
    /\ followed' = 0
    /\ per_user' = <<>>

NewRun(runs) ==
    /\ pc \in Stopped
    /\ run < runs
    /\ run' = run + 1
    /\ attempts' = <<>>
    /\ fetched' = {}
    /\ last' = NoCalls
    /\ old' = <<>>
    /\ netlog' = {}
    /\ savedEarlier' = IF pc = "done" THEN savedEarlier \cup Reposted(attempts)
                       ELSE savedEarlier
    /\ UNCHANGED <<fsVars, readerVars, sideVars>>

\* lines 190-195: no credentials
StartNoCredentials(runs) ==
    /\ NewRun(runs)
    /\ Cleared
    /\ loaded' = {}
    /\ pc' = "exit"

\* line 198: client.login raises
LoginRaises(runs) ==
    /\ NewRun(runs)
    /\ Cleared
    /\ loaded' = {}
    /\ pc' = "crashed"

\* lines 10-19 and 190-202
Start(runs, configs) ==
    /\ NewRun(runs)
    /\ \E c \in configs, now \in Nows :
        /\ cfg' = c
        /\ cutoff' = now - HOURS_BACK
    /\ done' = load_repost_log(dir, inodes, LedgerPath)
    /\ loaded' = done'
    /\ feed_uris' = <<>>
    /\ stop_dids' = {}
    /\ candidates' = <<>>
    /\ fi' = 1
    /\ ci' = 1
    /\ reposted' = 0
    /\ liked' = 0
    /\ followed' = 0
    /\ per_user' = <<>>
    /\ pc' = "resolve"

ResolveFeedsGoesOn ==
    /\ pc = "resolve"
    /\ \E links \in FeedConfigs :
        \E res \in [DOMAIN links -> BOOLEAN] :
            feed_uris' = resolve_feeds(links, res, 1)
    /\ pc' = "stoplists"
    /\ UNCHANGED <<cfg, cutoff, done, stop_dids, candidates, fi, ci, reposted, liked,
                   followed, per_user, fsVars, histVars, readerVars, sideVars>>
\* lines 204-216
ResolveFeeds ==
    /\ pc = "resolve"
    /\ \E links \in FeedConfigs :
        \E res \in [DOMAIN links -> BOOLEAN] :
            /\ feed_uris' = resolve_feeds(links, res, 1)
            /\ pc' = IF feed_uris' = <<>> THEN "exit" ELSE "stoplists"
    /\ UNCHANGED <<cfg, cutoff, done, stop_dids, candidates, fi, ci, reposted, liked,
                   followed, per_user, fsVars, histVars, readerVars, sideVars>>

\* lines 218-229, every fetch_list_member_dids returning
LoadStoplists ==
    /\ pc = "stoplists"
    /\ \E members \in StoplistResults : stop_dids' = members
    /\ netlog' = netlog \cup {"get_list"}
    /\ pc' = "collect"
    /\ UNCHANGED <<cfg, cutoff, done, feed_uris, candidates, fi, ci, reposted, liked,
                   followed, per_user, fsVars, run, loaded, fetched, attempts, last,
                   savedEarlier, old, readerVars, sideVars>>

\* an uncaught exception ends the process
Crash(calls) ==
    /\ Cleared
    /\ pc' = "crashed"
    /\ netlog' = netlog \cup calls
    /\ UNCHANGED <<fsVars, run, loaded, fetched, attempts, last, savedEarlier, old,
                   readerVars, sideVars>>

\* line 226: get_list raises inside fetch_list_member_dids
StoplistFetchRaises ==
    /\ pc = "stoplists"
    /\ Crash({"get_list", "get_list raised"})

\* line 235: get_feed raises inside fetch_feed_items
FeedFetchRaises ==
    /\ pc = "collect"
    /\ fi <= Len(feed_uris)
    /\ Crash({"get_feed", "get_feed raised"})

\* lines 233-281 for one feed
CollectFeed(results) ==
    /\ pc = "collect"
    /\ fi <= Len(feed_uris)
    /\ \E items \in results :
        LET r == filter_items(items, candidates, done, stop_dids, cutoff)
        IN  /\ ~r.raised
            /\ Len(r.cands) <= MaxCandidates
            /\ candidates' = r.cands
        /\ fetched' = fetched \cup ({items[i].uri : i \in DOMAIN items} \cap loaded)
    /\ netlog' = netlog \cup {"get_feed"}
    /\ fi' = fi + 1
    /\ UNCHANGED <<pc, cfg, cutoff, done, feed_uris, stop_dids, ci, reposted, liked,
                   followed, per_user, fsVars, run, loaded, attempts, last, savedEarlier,
                   old, readerVars, sideVars>>

SortCandidatesEarly ==
    /\ pc = "collect"
    /\ candidates' = sort_candidates(candidates)
    /\ pc' = "loop"
    /\ UNCHANGED <<cfg, cutoff, done, feed_uris, stop_dids, fi, ci, reposted, liked,
                   followed, per_user, fsVars, histVars, readerVars, sideVars>>
\* lines 283-289, once every feed is collected
SortCandidates ==
    /\ pc = "collect"
    /\ fi > Len(feed_uris)
    /\ candidates' = sort_candidates(candidates)
    /\ pc' = "loop"
    /\ UNCHANGED <<cfg, cutoff, done, feed_uris, stop_dids, fi, ci, reposted, liked,
                   followed, per_user, fsVars, histVars, readerVars, sideVars>>

\* line 263: a naive created_dt compared with the aware cutoff
CollectRaises(results) ==
    /\ pc = "collect"
    /\ fi <= Len(feed_uris)
    /\ \E items \in results :
        filter_items(items, candidates, done, stop_dids, cutoff).raised
    /\ Crash({"get_feed"})

\* per_user.setdefault(au, 0)
SetDefault(pu, au) == [a \in DOMAIN pu \cup {au} |-> IF a \in DOMAIN pu THEN pu[a] ELSE 0]

\* the author's count, 0 before the first setdefault
Count(pu, au) == IF au \in DOMAIN pu THEN pu[au] ELSE 0

AtRunCapOffByOne(n, c) == n > c.MAX_PER_RUN
\* line 292: reposted >= MAX_PER_RUN
AtRunCap(n, c) == n >= c.MAX_PER_RUN

AtUserCapOffByOne(pu, au, c) == pu[au] > c.MAX_PER_USER
\* line 297: per_user[au] >= MAX_PER_USER
AtUserCap(pu, au, c) == pu[au] >= c.MAX_PER_USER

DoneAddedBeforeRepost(dn, uri, ok) == dn \cup {uri}
DoneReplacedByRepost(dn, uri, ok) == IF ok THEN {uri} ELSE dn
\* line 310, reached only when repost.create returned
DoneAfterRepost(dn, uri, ok) == IF ok THEN dn \cup {uri} ELSE dn

LikeWhateverTheRepost(ok) == {"liked", "raised"}
\* do_like: called after the repost; its exception is swallowed
LikeOutcomes(ok) == IF ok THEN {"liked", "raised"} ELSE {"not called"}

\* do_follow_if_needed: get_profile raises, already following, follow.create
\* raises, follow.create returns; "off" when FOLLOW_ON_REPOST is not set
FollowOutcomes(c, ok) ==
    IF ok /\ c.FOLLOW_ON_REPOST
    THEN {"profile raised", "already", "create raised", "followed"}
    ELSE {"not called"}


\* lines 292-293, and the end of the for loop
LoopEnds ==
    /\ pc = "loop"
    /\ ci > Len(candidates) \/ AtRunCap(reposted, cfg)
    /\ pc' = "save"
    /\ UNCHANGED <<cfg, cutoff, done, feed_uris, stop_dids, candidates, fi, ci, reposted,
                   liked, followed, per_user, fsVars, histVars, readerVars, sideVars>>

LoopSkipsStops ==
    /\ pc = "loop"
    /\ ci <= Len(candidates)
    /\ ~AtRunCap(reposted, cfg)
    /\ LET au == candidates[ci].author_did
           pu == SetDefault(per_user, au)
       IN  /\ AtUserCap(pu, au, cfg)
           /\ per_user' = pu
    /\ pc' = "save"
    /\ last' = [NoCalls EXCEPT !.ix = ci, !.uri = candidates[ci].uri]
    /\ UNCHANGED <<ci, cfg, cutoff, done, feed_uris, stop_dids, candidates, fi, reposted,
                   liked, followed, fsVars, run, loaded, fetched, attempts, savedEarlier,
                   old, netlog, readerVars, sideVars>>
\* lines 295-298: the author is at the cap
LoopSkips ==
    /\ pc = "loop"
    /\ ci <= Len(candidates)
    /\ ~AtRunCap(reposted, cfg)
    /\ LET au == candidates[ci].author_did
           pu == SetDefault(per_user, au)
       IN  /\ AtUserCap(pu, au, cfg)
           /\ per_user' = pu
    /\ ci' = ci + 1
    /\ last' = [NoCalls EXCEPT !.ix = ci, !.uri = candidates[ci].uri]
    /\ UNCHANGED <<pc, cfg, cutoff, done, feed_uris, stop_dids, candidates, fi, reposted,
                   liked, followed, fsVars, run, loaded, fetched, attempts, savedEarlier,
                   old, netlog, readerVars, sideVars>>

\* lines 295-327: one candidate is attempted
Repost ==
    /\ pc = "loop"
    /\ ci <= Len(candidates)
    /\ ~AtRunCap(reposted, cfg)
    /\ LET c == candidates[ci]
           au == c.author_did
           pu == SetDefault(per_user, au)
       IN  /\ ~AtUserCap(pu, au, cfg)
           /\ \E ok \in BOOLEAN :
               \E lk \in LikeOutcomes(ok), fol \in FollowOutcomes(cfg, ok) :
                   /\ done' = DoneAfterRepost(done, c.uri, ok)
                   /\ per_user' = IF ok THEN [pu EXCEPT ![au] = @ + 1] ELSE pu
                   /\ reposted' = IF ok THEN reposted + 1 ELSE reposted
                   /\ liked' = IF lk = "liked" THEN liked + 1 ELSE liked
                   /\ followed' = IF fol = "followed" THEN followed + 1 ELSE followed
                   /\ attempts' = Append(attempts, [ix |-> ci, c |-> c, ok |-> ok])
                   /\ last' = [ix |-> ci, uri |-> c.uri, like |-> lk, follow |-> fol]
    /\ ci' = ci + 1
    /\ UNCHANGED <<pc, cfg, cutoff, feed_uris, stop_dids, candidates, fi, fsVars,
                   run, loaded, fetched, savedEarlier, old, netlog, readerVars, sideVars>>

\* lines 47-48: open(tmp, "w") creates the file or empties it
SaveOpens ==
    /\ pc = "save"
    /\ LET tmp == TmpPath(LedgerPath)
           ino == IF Exists(dir, tmp) THEN dir[tmp] ELSE FreshIno(dir, Held)
       IN  /\ dir' = [dir EXCEPT ![tmp] = ino]
           /\ inodes' = [inodes EXCEPT ![ino] = <<>>]
    /\ old' = IF Exists(dir, LedgerPath) THEN inodes[dir[LedgerPath]] ELSE <<>>
    /\ pc' = "write"
    /\ UNCHANGED <<cfg, cutoff, done, feed_uris, stop_dids, candidates, fi, ci, reposted,
                   liked, followed, per_user, run, loaded, fetched, attempts, last,
                   savedEarlier, netlog, readerVars, sideVars>>

Min(a, b) == IF a < b THEN a ELSE b

\* lines 48-50: the buffered lines reach the file, some at a time (chunks: how
\* many lines a flush may carry), and the file is closed after the last
SaveWrites(chunks) ==
    /\ pc = "write"
    /\ LET ino == dir[TmpPath(LedgerPath)]
           lines == SavedLines(done)
           n == Len(inodes[ino])
       IN  \E k \in chunks :
               /\ inodes' = [inodes EXCEPT
                               ![ino] = @ \o SubSeq(lines, n + 1, Min(n + k, Len(lines)))]
               /\ pc' = IF n + k >= Len(lines) THEN "replace" ELSE "write"
    /\ UNCHANGED <<cfg, cutoff, done, feed_uris, stop_dids, candidates, fi, ci, reposted,
                   liked, followed, per_user, dir, histVars, readerVars, sideVars>>

\* os.replace(src, dst)
os_replace(d, src, dst) ==
    [n \in Names |-> IF n = dst THEN d[src] ELSE IF n = src THEN NoIno ELSE d[n]]

\* line 51, and the return of main()
SaveReplaces ==
    /\ pc = "replace"
    /\ dir' = os_replace(dir, TmpPath(LedgerPath), LedgerPath)
    /\ inodes' = Gc(dir', inodes, Held)
    /\ pc' = "done"
    /\ UNCHANGED <<cfg, cutoff, done, feed_uris, stop_dids, candidates, fi, ci, reposted,
                   liked, followed, per_user, histVars, readerVars, sideVars>>

\* the process is terminated from outside
Kill ==
    /\ pc \in Running
    /\ Cleared
    /\ pc' = "killed"
    /\ UNCHANGED <<fsVars, histVars, readerVars, sideVars>>

----------------------------------------------------------------------------
\* The runs of main(), one after the other

InitFs ==
    \/ /\ dir = [n \in Names |-> NoIno]
       /\ inodes = [i \in Inos |-> <<>>]
    \/ \E content \in InitLedgers :
        /\ dir = [n \in Names |-> IF n = LedgerPath THEN 1 ELSE NoIno]
        /\ inodes = [i \in Inos |-> IF i = 1 THEN content ELSE <<>>]

InitProc ==
    /\ pc = "idle"
    /\ cfg = NoCfg
    /\ cutoff = 0
    /\ done = {}
    /\ feed_uris = <<>>
    /\ stop_dids = {}
    /\ candidates = <<>>
    /\ fi = 1
    /\ ci = 1
    /\ reposted = 0
    /\ liked = 0
    /\ followed = 0
    /\ per_user = <<>>

InitHist ==
    /\ run = 0
    /\ loaded = {}
    /\ fetched = {}
    /\ attempts = <<>>
    /\ last = NoCalls
    /\ savedEarlier = {}
    /\ old = <<>>
    /\ netlog = {}

InitReader ==
    /\ rpc = "off"
    /\ rino = NoIno
    /\ rpos = 0
    /\ racc = {}

\* no fetcher call and no item are looked at on their own
InitSide ==
    /\ fpc = "off"
    /\ flimits = [FEED_MAX_ITEMS |-> 0, LIST_MEMBER_LIMIT |-> 0]
    /\ fitems = <<>>
    /\ fmembers = {}
    /\ fcursor = NoCursor
    /\ fresult = <<>>
    /\ feed_item = NoItem

Init == InitFs /\ InitProc /\ InitHist /\ InitReader /\ InitSide

Next ==
    \/ StartNoCredentials(1)
    \/ LoginRaises(1)
    \/ Start(1, Configs)
    \/ ResolveFeeds
    \/ LoadStoplists
    \/ StoplistFetchRaises
    \/ FeedFetchRaises
    \/ CollectFeed(FeedResults(FeedPool))
    \/ SortCandidates
    \/ CollectRaises(FeedResults(FeedPool))
    \/ LoopEnds
    \/ LoopSkips
    \/ Repost
    \/ SaveOpens
    \/ SaveWrites({WholeBuffer})
    \/ SaveReplaces
    \/ Kill

Spec == Init /\ [][Next]_vars

----------------------------------------------------------------------------
\* Runs in a row, none overlapping another, on a smaller world: one configuration,
\* no boost and no naive timestamp among the posts

RunsConfigs == {[MAX_PER_RUN |-> 2, MAX_PER_USER |-> 1, FOLLOW_ON_REPOST |-> FALSE]}

RunsPool == {Post(1, "a1", 5), Post(2, "a1", 6), Post(3, "a2", 4)}

NextRuns ==
    \/ StartNoCredentials(MaxRuns)
    \/ LoginRaises(MaxRuns)
    \/ Start(MaxRuns, RunsConfigs)
    \/ ResolveFeeds
    \/ LoadStoplists
    \/ StoplistFetchRaises
    \/ FeedFetchRaises
    \/ CollectFeed(FeedResults(RunsPool))
    \/ SortCandidates
    \/ LoopEnds
    \/ LoopSkips
    \/ Repost
    \/ SaveOpens
    \/ SaveWrites({WholeBuffer})
    \/ SaveReplaces
    \/ Kill

SpecRuns == Init /\ [][NextRuns]_vars

----------------------------------------------------------------------------
\* save_repost_log on its own, next to another process that reads the ledger
\* path line by line (load_repost_log, lines 40-44)

\* lines 41-43: os.path.exists, open
ReaderOpens ==
    /\ rpc = "idle"
    /\ IF Exists(dir, LedgerPath)
       THEN rpc' = "reading" /\ rino' = dir[LedgerPath]
       ELSE rpc' = "read" /\ rino' = NoIno
    /\ rpos' = 0
    /\ racc' = {}
    /\ UNCHANGED <<procVars, fsVars, histVars, sideVars>>

\* line 44: one line of `for line in f`
ReaderReads ==
    /\ rpc = "reading"
    /\ rpos < Len(inodes[rino])
    /\ LET l == Strip(inodes[rino][rpos + 1])
       IN  racc' = IF l # <<>> THEN racc \cup {l} ELSE racc
    /\ rpos' = rpos + 1
    /\ UNCHANGED <<procVars, fsVars, histVars, rpc, rino, sideVars>>

\* line 44: end of file, the set is returned and the file closed
ReaderCloses ==
    /\ rpc = "reading"
    /\ rpos >= Len(inodes[rino])
    /\ rpc' = "read"
    /\ rino' = NoIno
    /\ inodes' = Gc(dir, inodes, {})
    /\ UNCHANGED <<procVars, dir, histVars, rpos, racc, sideVars>>

\* a line that a save killed earlier left in the temporary file
StaleLine == Uri(9)

\* main() has reached line 329: done holds the loaded ledger and what the run
\* added; the temporary file of a killed save may lie about
InitSave ==
    /\ \E present \in BOOLEAN, stale \in BOOLEAN :
        \E content \in IF present THEN InitLedgers ELSE {<<>>} :
            \E added \in SUBSET {Uri(2), Uri(4)} :
                /\ dir = [n \in Names |-> IF n = LedgerPath /\ present THEN 1
                                          ELSE IF n # LedgerPath /\ stale THEN 2
                                          ELSE NoIno]
                /\ inodes = [i \in Inos |-> IF i = 1 /\ present THEN content
                                            ELSE IF i = 2 /\ stale THEN <<StaleLine>>
                                            ELSE <<>>]
                /\ loaded = LinesToSet(content)
                /\ done = LinesToSet(content) \cup added
                /\ old = content
    /\ pc = "save"
    /\ cfg \in RunsConfigs
    /\ cutoff = 0
    /\ feed_uris = <<>>
    /\ stop_dids = {}
    /\ candidates = <<>>
    /\ fi = 1
    /\ ci = 1
    /\ reposted = 0
    /\ liked = 0
    /\ followed = 0
    /\ per_user = <<>>
    /\ run = 1
    /\ fetched = {}
    /\ attempts = <<>>
    /\ last = NoCalls
    /\ savedEarlier = {}
    /\ netlog = {"get_list", "get_feed"}
    /\ rpc = "idle"
    /\ rino = NoIno
    /\ rpos = 0
    /\ racc = {}
    /\ InitSide

NextSave ==
    \/ SaveOpens
    \/ SaveWrites({1, WholeBuffer})
    \/ SaveReplaces
    \/ Kill
    \/ ReaderOpens
    \/ ReaderReads
    \/ ReaderCloses

SpecSave == InitSave /\ [][NextSave]_vars

----------------------------------------------------------------------------
\* save_repost_log called again with the same set: sorted(uris) is computed from
\* the set in whatever order the set hands its elements out

\* calls of save_repost_log with one set
MaxSaves == 2

\* the orders a set may be iterated in
Orders(S) == {o \in [1..Cardinality(S) -> S] : Range(o) = S}

\* one insertion of sorted(): x goes behind every element that is not greater
RECURSIVE InsertStr(_, _)
InsertStr(x, s) ==
    IF s = <<>> THEN <<x>>
    ELSE IF StrLess(x, Head(s)) THEN <<x>> \o s
    ELSE <<Head(s)>> \o InsertStr(x, Tail(s))

RECURSIVE SortStrFrom(_, _)
SortStrFrom(sorted, rest) ==
    IF rest = <<>> THEN sorted ELSE SortStrFrom(InsertStr(Head(rest), sorted), Tail(rest))

UnsortedIter(order) == order
\* line 49: sorted(uris), uris iterated in this order
sorted_iter(order) == SortStrFrom(<<>>, order)

\* uris a run may have added: one a prefix of another, one with a blank inside
AddedPool == {Uri(1), <<1, 2>>, Uri(2), <<1, SP, 1>>}

InitSaveTwice ==
    /\ \E present \in BOOLEAN :
        \E content \in IF present THEN InitLedgers ELSE {<<>>} :
            \E added \in SUBSET AddedPool :
                /\ dir = [n \in Names |-> IF n = LedgerPath /\ present THEN 1 ELSE NoIno]
                /\ inodes = [i \in Inos |-> IF i = 1 /\ present THEN content ELSE <<>>]
                /\ loaded = LinesToSet(content)
                /\ done = LinesToSet(content) \cup added
                /\ old = content
    /\ pc = "save"
    /\ cfg \in RunsConfigs
    /\ cutoff = 0
    /\ feed_uris = <<>>
    /\ stop_dids = {}
    /\ candidates = <<>>
    /\ fi = 1
    /\ ci = 1
    /\ reposted = 0
    /\ liked = 0
    /\ followed = 0
    /\ per_user = <<>>
    /\ run = 1
    /\ fetched = {}
    /\ attempts = <<>>
    /\ last = NoCalls
    /\ savedEarlier = {}
    /\ netlog = {"get_list", "get_feed"}
    /\ InitReader
    /\ InitSide

\* lines 48-50: all lines are written and the file is closed
SaveWritesSorted ==
    /\ pc = "write"
    /\ \E order \in Orders(done) :
        inodes' = [inodes EXCEPT ![dir[TmpPath(LedgerPath)]] = sorted_iter(order)]
    /\ pc' = "replace"
    /\ UNCHANGED <<cfg, cutoff, done, feed_uris, stop_dids, candidates, fi, ci, reposted,
                   liked, followed, per_user, dir, histVars, readerVars, sideVars>>

\* save_repost_log is called once more with the set it has just saved
SaveSameSetAgain ==
    /\ pc = "done"
    /\ run < MaxSaves
    /\ run' = run + 1
    /\ pc' = "save"
    /\ UNCHANGED <<cfg, cutoff, done, feed_uris, stop_dids, candidates, fi, ci, reposted,
                   liked, followed, per_user, fsVars, loaded, fetched, attempts, last,
                   savedEarlier, old, netlog, readerVars, sideVars>>

NextSaveTwice ==
    \/ SaveOpens
    \/ SaveWritesSorted
    \/ SaveReplaces
    \/ SaveSameSetAgain

SpecSaveTwice == InitSaveTwice /\ [][NextSaveTwice]_vars

----------------------------------------------------------------------------
\* The filter chain on its own: the body of `for item in items` (lines 237-281)
\* applied to one item, whatever the item looks like

\* where an item may carry timestamps: createdAt on the record and indexedAt on the
\* post; old createdAt; none anywhere; malformed createdAt and a good indexedAt;
\* createdAt without offset, recent and old; malformed createdAt on the record and a
\* good one on the post; only `timestamp` on the post, at the cutoff itself; old
\* createdAt and recent indexedAt
FilterTimes ==
    { [rec |-> <<Aware(6), NoTime, NoTime, NoTime>>, post |-> <<NoTime, Aware(6), NoTime, NoTime>>],
      [rec |-> <<Aware(2), NoTime, NoTime, NoTime>>, post |-> <<NoTime, NoTime, NoTime, NoTime>>],
      [rec |-> <<NoTime, NoTime, NoTime, NoTime>>, post |-> <<NoTime, NoTime, NoTime, NoTime>>],
      [rec |-> <<BadTime, NoTime, NoTime, NoTime>>, post |-> <<NoTime, Aware(6), NoTime, NoTime>>],
      [rec |-> <<Naive(6), NoTime, NoTime, NoTime>>, post |-> <<NoTime, Aware(6), NoTime, NoTime>>],
      [rec |-> <<Naive(2), NoTime, NoTime, NoTime>>, post |-> <<NoTime, NoTime, NoTime, NoTime>>],
      [rec |-> <<BadTime, NoTime, NoTime, NoTime>>, post |-> <<Aware(6), NoTime, NoTime, NoTime>>],
      [rec |-> <<NoTime, NoTime, NoTime, NoTime>>, post |-> <<NoTime, NoTime, NoTime, Aware(4)>>],
      [rec |-> <<Aware(2), NoTime, NoTime, NoTime>>, post |-> <<NoTime, Aware(6), NoTime, NoTime>>] }

FilterEmbeds == {NoEmbed} \cup {Embed(i, v, r, w) : i \in BOOLEAN, v \in BOOLEAN,
                                                    r \in BOOLEAN, w \in BOOLEAN}

FilterItems ==
    { [uri |-> Uri(n), reason |-> b, reply |-> p, embed |-> e,
       rec_ts |-> ts.rec, post_ts |-> ts.post, author |-> au] :
        n \in 1..2, b \in BOOLEAN, p \in BOOLEAN, e \in FilterEmbeds,
        ts \in FilterTimes, au \in {NoDid, "a1", "a3"} }

InitFilter ==
    /\ pc = "filter"
    /\ cfg \in RunsConfigs
    /\ \E now \in Nows : cutoff = now - HOURS_BACK
    /\ done \in {{}, {Uri(1)}}
    /\ feed_uris = <<"f1">>
    /\ stop_dids \in StoplistResults
    /\ candidates = <<>>
    /\ fi = 1
    /\ ci = 1
    /\ reposted = 0
    /\ liked = 0
    /\ followed = 0
    /\ per_user = <<>>
    /\ dir = [n \in Names |-> NoIno]
    /\ inodes = [i \in Inos |-> <<>>]
    /\ InitHist
    /\ InitReader
    /\ fpc = "off"
    /\ flimits = [FEED_MAX_ITEMS |-> 0, LIST_MEMBER_LIMIT |-> 0]
    /\ fitems = <<>>
    /\ fmembers = {}
    /\ fcursor = NoCursor
    /\ fresult = <<>>
    /\ feed_item \in FilterItems

\* lines 274-281: the item reaches candidates.append
FilterKeeps ==
    /\ pc = "filter"
    /\ filter_item(feed_item, done, stop_dids, cutoff) = "candidate"
    /\ candidates' = Append(candidates, Candidate(feed_item))
    /\ pc' = "kept"
    /\ UNCHANGED <<cfg, cutoff, done, feed_uris, stop_dids, fi, ci, reposted, liked,
                   followed, per_user, fsVars, histVars, readerVars, sideVars>>

\* one of the `continue` statements of lines 243-272
FilterSkips ==
    /\ pc = "filter"
    /\ filter_item(feed_item, done, stop_dids, cutoff) = "skip"
    /\ pc' = "skipped"
    /\ UNCHANGED <<cfg, cutoff, done, feed_uris, stop_dids, candidates, fi, ci, reposted,
                   liked, followed, per_user, fsVars, histVars, readerVars, sideVars>>

\* line 263: `created_dt < cutoff` raises TypeError
FilterRaises ==
    /\ pc = "filter"
    /\ filter_item(feed_item, done, stop_dids, cutoff) = "raise"
    /\ pc' = "raised"
    /\ UNCHANGED <<cfg, cutoff, done, feed_uris, stop_dids, candidates, fi, ci, reposted,
                   liked, followed, per_user, fsVars, histVars, readerVars, sideVars>>

NextFilter ==
    \/ FilterKeeps
    \/ FilterSkips
    \/ FilterRaises

SpecFilter == InitFilter /\ [][NextFilter]_vars

----------------------------------------------------------------------------
\* The page fetchers on their own: one call of fetch_feed_items or of
\* fetch_list_member_dids against a source that answers each request as it likes

\* FEED_MAX_ITEMS and LIST_MEMBER_LIMIT range over 1..MaxFetchCap
MaxFetchCap == 2
\* entries on one page
MaxPage == 2

\* the cursor strings of the source
Cursors == {1, 2}

\* posts on the pages of get_feed
PagePosts == {"p1", "p2"}
\* the subject dids of the entries on the pages of get_list (NoDid: no subject)
PageDids == {"d1", "d2", NoDid}

TakeAll(s, n) == s
\* items[:FEED_MAX_ITEMS]
Take(s, n) == SubSeq(s, 1, Min(n, Len(s)))

\* lines 141-147: `for it in items`, with the return from inside it
RECURSIVE AddMembers(_, _, _)
AddMembers(members, entries, limit) ==
    IF entries = <<>> THEN [members |-> members, full |-> FALSE]
    ELSE LET did == Head(entries)
         IN  IF did = NoDid THEN AddMembers(members, Tail(entries), limit)
             ELSE LET m == members \cup {did}
                  IN  IF Cardinality(m) >= limit THEN [members |-> m, full |-> TRUE]
                      ELSE AddMembers(m, Tail(entries), limit)

InitFetch ==
    /\ InitProc
    /\ dir = [n \in Names |-> NoIno]
    /\ inodes = [i \in Inos |-> <<>>]
    /\ InitHist
    /\ InitReader
    /\ fpc \in {"feed", "list"}
    /\ flimits \in [FEED_MAX_ITEMS : 1..MaxFetchCap, LIST_MEMBER_LIMIT : 1..MaxFetchCap]
    /\ fitems = <<>>
    /\ fmembers = {}
    /\ fcursor = NoCursor
    /\ fresult = <<>>
    /\ feed_item = NoItem

\* lines 121-130: one pass through the loop of fetch_feed_items
FeedPage ==
    /\ fpc = "feed"
    /\ \E batch \in SeqsUpTo(PagePosts, MaxPage), cur \in Cursors \cup {NoCursor} :
        LET items == fitems \o batch
        IN  /\ fitems' = items
            /\ fcursor' = cur
            /\ IF cur = NoCursor \/ Len(items) >= flimits.FEED_MAX_ITEMS
               THEN fpc' = "returned" /\ fresult' = Take(items, flimits.FEED_MAX_ITEMS)
               ELSE fpc' = "feed" /\ fresult' = fresult
    /\ UNCHANGED <<procVars, fsVars, histVars, readerVars, flimits, fmembers, feed_item>>

\* lines 136-151: one pass through the loop of fetch_list_member_dids
ListPage ==
    /\ fpc = "list"
    /\ \E entries \in SeqsUpTo(PageDids, MaxPage), cur \in Cursors \cup {NoCursor} :
        LET r == AddMembers(fmembers, entries, flimits.LIST_MEMBER_LIMIT)
        IN  /\ fmembers' = r.members
            /\ IF r.full
               THEN fpc' = "returned" /\ fcursor' = fcursor
               ELSE /\ fcursor' = cur
                    /\ fpc' = IF cur = NoCursor THEN "returned" ELSE "list"
    /\ UNCHANGED <<procVars, fsVars, histVars, readerVars, flimits, fitems, fresult,
                   feed_item>>

\* lines 125, 139: get_feed or get_list raises
FetchRaises ==
    /\ fpc \in {"feed", "list"}
    /\ fpc' = "raised"
    /\ UNCHANGED <<procVars, fsVars, histVars, readerVars, flimits, fitems, fmembers,
                   fcursor, fresult, feed_item>>

NextFetch ==
    \/ FeedPage
    \/ ListPage
    \/ FetchRaises

SpecFetch == InitFetch /\ [][NextFetch]_vars

\* the call keeps running: every request is answered or raises
SpecFetchLive == SpecFetch /\ WF_vars(NextFetch)

----------------------------------------------------------------------------
\* What the claims speak of

\* the content at the ledger path, as a reader that opened it now would load it
Ledger == load_repost_log(dir, inodes, LedgerPath)

\* the lines at the ledger path
PathContent == IF Exists(dir, LedgerPath) THEN inodes[dir[LedgerPath]] ELSE <<>>

\* the numbers of the attempts of this run
Tries == DOMAIN attempts

\* the successful reposts of this run among the posts of author au
Successes(au) == {k \in Tries : attempts[k].ok /\ attempts[k].c.author_did = au}

\* the candidates' numbers that a repost was attempted for
TriedIx == {attempts[k].ix : k \in Tries}

\* the candidates' numbers whose repost succeeded
DoneIx == {attempts[k].ix : k \in {j \in Tries : attempts[j].ok}}

\* the candidates of author au, by number (candidates are in chronological order)
Of(au) == {i \in DOMAIN candidates : candidates[i].author_did = au}

CandidateAuthors == {candidates[i].author_did : i \in DOMAIN candidates}

\* the repost loop is over and main() still holds its candidates
LoopOver == pc \in {"save", "write", "replace", "done"}

\* this step is a pass through the loop body whose repost call raised
RepostRaised ==
    /\ Len(attempts') = Len(attempts) + 1
    /\ ~attempts'[Len(attempts')].ok

\* this step is a pass through the loop body that skipped its candidate
Skipped ==
    /\ pc = "loop" /\ pc' = "loop"
    /\ ci' = ci + 1
    /\ attempts' = attempts

----------------------------------------------------------------------------
\* C1: no repost, like or follow is invoked in a run for an item whose uri is in
\* the ledger as load_repost_log returned it at the start of that run.
C1_LoadedNeverActedOn ==
    /\ \A k \in Tries : attempts[k].c.uri \notin loaded
    /\ (last.like # "not called" \/ last.follow # "not called") => last.uri \notin loaded

\* a feed returned a post of the loaded ledger, and the run went on to repost
C1_Witness ==
    /\ fetched # {}
    /\ \E k \in Tries : attempts[k].ok
    /\ last.like = "liked"

\* C2: a uri is reposted at most once per run: once a repost of it has succeeded
\* (and the uri is in the in-memory ledger), no later repost call is made for it.
C2_RepostedOncePerRun ==
    \A j, k \in Tries :
        (j < k /\ attempts[j].ok) => attempts[k].c.uri # attempts[j].c.uri

\* C3: a uri reposted by an earlier run that reached the end of its save is never
\* reposted by a later run.
C3_NeverRepostedByLaterRun ==
    \A k \in Tries : attempts[k].c.uri \notin savedEarlier

\* a later run is handed a post an earlier run reposted, and reposts another
C3_Witness ==
    /\ run = 2
    /\ fetched \cap savedEarlier # {}
    /\ \E k \in Tries : attempts[k].ok

\* C4: at every point of a run the successful reposts are at most MAX_PER_RUN, and
\* those of any one author at most MAX_PER_USER.
C4_CapsHold ==
    pc \in Running \cup {"done"} =>
        /\ Cardinality({k \in Tries : attempts[k].ok}) <= cfg.MAX_PER_RUN
        /\ \A k \in Tries :
               Cardinality(Successes(attempts[k].c.author_did)) <= cfg.MAX_PER_USER

\* both caps are reached with a candidate still to come
C4_Witness ==
    /\ pc = "loop"
    /\ ci <= Len(candidates)
    /\ Cardinality({k \in Tries : attempts[k].ok}) = cfg.MAX_PER_RUN
    /\ \E k \in Tries : Cardinality(Successes(attempts[k].c.author_did)) = cfg.MAX_PER_USER
    /\ cfg.MAX_PER_RUN > 1

\* C5: a repost call that raises adds nothing to the ledger, leaves the global and
\* the per-author counters as they were, is followed by no like and no follow, and
\* the loop goes on with the next candidate; the saved ledger holds that uri only
\* if it was loaded or another repost of it succeeded.
C5_FailedRepostLeavesNoTrace ==
    /\ [][RepostRaised =>
            /\ done' = done
            /\ reposted' = reposted
            /\ \A au \in CandidateAuthors : Count(per_user', au) = Count(per_user, au)
            /\ liked' = liked /\ followed' = followed
            /\ last'.like = "not called" /\ last'.follow = "not called"
            /\ pc' = "loop" /\ ci' = ci + 1]_vars
    /\ [](pc = "done" =>
            \A k \in Tries :
                (~attempts[k].ok /\ attempts[k].c.uri \in Ledger) =>
                    \/ attempts[k].c.uri \in loaded
                    \/ attempts[k].c.uri \in Reposted(attempts))

\* a repost raised, a later candidate was reposted, and the saved ledger does not
\* hold the uri of the failed one
C5_Witness ==
    /\ pc = "done"
    /\ \E j, k \in Tries :
        /\ j < k
        /\ ~attempts[j].ok /\ attempts[k].ok
        /\ attempts[j].c.uri \notin Ledger
        /\ attempts[k].c.uri \in Ledger

\* the author's first m candidates
Earliest(au, m) == {i \in Of(au) : Cardinality({j \in Of(au) : j < i}) < m}

\* C7 as stated: when the loop ended below the global cap, the candidates acted
\* upon of an author with more than MAX_PER_USER candidates are exactly that
\* author's chronologically earliest MAX_PER_USER.
C7_ExactlyTheEarliest ==
    (LoopOver /\ reposted < cfg.MAX_PER_RUN) =>
        \A au \in CandidateAuthors :
            Cardinality(Of(au)) > cfg.MAX_PER_USER =>
                TriedIx \cap Of(au) = Earliest(au, cfg.MAX_PER_USER)

\* C7 as amended: when the loop ended below the global cap, a candidate of an
\* author with more than MAX_PER_USER candidates is acted upon exactly if fewer
\* than MAX_PER_USER of that author's chronologically earlier candidates were
\* reposted successfully; a skipped candidate is not counted and adds nothing to
\* the ledger.
C7_EarliestUntilCapSucceeded ==
    /\ [](LoopOver /\ reposted < cfg.MAX_PER_RUN =>
            \A au \in CandidateAuthors :
                Cardinality(Of(au)) > cfg.MAX_PER_USER =>
                    \A i \in Of(au) :
                        i \in TriedIx <=>
                            Cardinality({j \in Of(au) \cap DoneIx : j < i}) < cfg.MAX_PER_USER)
    /\ [][Skipped =>
            /\ done' = done
            /\ reposted' = reposted
            /\ \A au \in CandidateAuthors : Count(per_user', au) = Count(per_user, au)]_vars

\* an author has three candidates under a cap of one: the repost of the first
\* raised, the second was reposted, the third skipped
C7_Witness ==
    /\ LoopOver /\ reposted < cfg.MAX_PER_RUN
    /\ cfg.MAX_PER_USER = 1
    /\ \E au \in CandidateAuthors :
        /\ Cardinality(Of(au)) = 3
        /\ \E j, k \in Tries :
            /\ j < k /\ ~attempts[j].ok /\ attempts[k].ok
            /\ attempts[j].c.author_did = au /\ attempts[k].c.author_did = au
        /\ Of(au) \ TriedIx # {}

\* s holds the elements of l in non-decreasing order of created, those with equal
\* created in the order they have in l
IsStableSortOf(s, l) ==
    /\ Len(s) = Len(l)
    /\ \E p \in [DOMAIN s -> DOMAIN l] :
        /\ \A i, j \in DOMAIN s : i # j => p[i] # p[j]
        /\ \A i \in DOMAIN s : s[i] = l[p[i]]
        /\ \A i, j \in DOMAIN s : i < j => s[i].created <= s[j].created
        /\ \A i, j \in DOMAIN s : (i < j /\ s[i].created = s[j].created) => p[i] < p[j]

IsPrefix(s, t) == Len(s) <= Len(t) /\ SubSeq(t, 1, Len(s)) = s

\* C8: reposts are attempted in non-decreasing order of created_at over the pooled
\* candidates of all feeds, candidates of equal created_at in their input order:
\* the pool grows feed by feed at its end, the sort is a stable sort of the pool by
\* created, the loop does not reorder it, and attempts follow the sorted list.
C8_ChronologicalStableOrder ==
    /\ [](\A j, k \in Tries :
            j < k => /\ attempts[j].c.created <= attempts[k].c.created
                     /\ attempts[j].ix < attempts[k].ix)
    /\ [](pc = "loop" => \A k \in Tries : attempts[k].c = candidates[attempts[k].ix])
    /\ [][(pc = "collect" /\ pc' = "collect") => IsPrefix(candidates, candidates')]_vars
    /\ [][(pc = "collect" /\ pc' = "loop") => IsStableSortOf(candidates', candidates)]_vars
    /\ [][(pc = "loop" /\ pc' \in {"loop", "save"}) => candidates' = candidates]_vars

\* two posts created at the same instant were both attempted, and a post created
\* earlier than both was attempted before them though it was collected last
C8_Witness ==
    /\ Len(attempts) = 3
    /\ attempts[1].c.created < attempts[2].c.created
    /\ attempts[2].c.created = attempts[3].c.created
    /\ attempts[2].c.uri # attempts[3].c.uri

\* C6: saving the ledger is atomic.  Until the replace the ledger path holds the
\* complete old content, whatever step the save is killed at; after it the path
\* holds the complete new content; and a reader that read the path line by line
\* while the save went on ends with the complete old set or the complete new one.
C6_SaveIsAtomic ==
    /\ pc \in {"save", "write", "replace", "killed"} => PathContent = old
    /\ pc = "done" => PathContent = SavedLines(done)
    /\ rpc = "read" => \/ racc = LinesToSet(old)
                       \/ pc = "done" /\ racc = done

\* the save has replaced the file while a reader is half way through the old one
C6_Witness ==
    /\ pc = "done"
    /\ rpc = "reading"
    /\ rino # dir[LedgerPath]
    /\ 0 < rpos /\ rpos < Len(inodes[rino])
    /\ LinesToSet(old) # done

\* the spec's filters 1 to 5
FirstFivePass(it, dn) ==
    /\ it.uri \notin dn
    /\ ~it.reason
    /\ ~is_quote_post(it.embed)
    /\ has_media(it.embed)
    /\ ~it.reply

\* the seven filters as the spec lists them
SevenPass(it, dn, stop, cut) ==
    /\ FirstFivePass(it, dn)
    /\ LET t == parse_time(it.rec_ts, it.post_ts)
       IN  t.k \in {"naive", "aware"} /\ t.t >= cut
    /\ it.author \notin stop

\* the filters evaluated in the spec's order (ledger, boost, quote, media, reply,
\* recency, then the author), with the outcomes of the code
SpecOrder(it, dn, stop, cut) ==
    IF it.uri \in dn THEN "skipped"
    ELSE IF it.reason THEN "skipped"
    ELSE IF is_quote_post(it.embed) THEN "skipped"
    ELSE IF ~has_media(it.embed) THEN "skipped"
    ELSE IF it.reply THEN "skipped"
    ELSE LET t == parse_time(it.rec_ts, it.post_ts)
         IN  IF t.k = "none" THEN "skipped"
             ELSE IF t.k = "naive" THEN "raised"
             ELSE IF t.t < cut THEN "skipped"
             ELSE IF it.author = NoDid \/ it.author \in stop THEN "skipped"
             ELSE "kept"

Filtered == pc \in {"kept", "skipped", "raised"}

C10_FetchTerminates == <>(fpc \in {"returned", "raised"})

\* the caps cannot hold any candidate back
CapsOutOfReach ==
    /\ Len(candidates) <= cfg.MAX_PER_RUN
    /\ \A au \in CandidateAuthors : Cardinality(Of(au)) <= cfg.MAX_PER_USER

\* C11: when a run has saved, the ledger file holds the ledger loaded at the start
\* and the uris whose repost succeeded in this run, nothing less and nothing more;
\* when no cap holds a candidate back and no repost fails, every candidate was
\* reposted and the ledger has grown by the number of distinct candidate uris.
C11_SavedIsLoadedPlusReposted ==
    pc = "done" =>
        /\ Ledger = loaded \cup Reposted(attempts)
        /\ (CapsOutOfReach /\ \A k \in Tries : attempts[k].ok) =>
               /\ DoneIx = DOMAIN candidates
               /\ Cardinality(Ledger) =
                      Cardinality(loaded)
                      + Cardinality({candidates[i].uri : i \in DOMAIN candidates})

\* a run that loaded a ledger reposted both its candidates and saved
C11_Witness ==
    /\ pc = "done"
    /\ loaded # {}
    /\ Len(candidates) = 2
    /\ DoneIx = {1, 2}
    /\ CapsOutOfReach
    /\ Cardinality(Ledger) = Cardinality(loaded) + 2

\* C12: the file save_repost_log leaves holds each uri of the set once, one per
\* line, in ascending order, whatever order the set is iterated in; saving the
\* same set again leaves the same content.
C12_SaveIsDeterministic ==
    pc = "done" =>
        /\ Range(PathContent) = done
        /\ \A i, j \in DOMAIN PathContent : i < j => StrLess(PathContent[i], PathContent[j])
        /\ PathContent = SavedLines(done)
        /\ run > 1 => PathContent = old

\* the second save of a set of three or more uris, one of them a prefix of another
C12_Witness ==
    /\ pc = "done"
    /\ run = 2
    /\ Cardinality(done) >= 3
    /\ {Uri(1), <<1, 2>>} \subseteq done

\* C13: a run without credentials, or one none of whose feed links resolves, exits;
\* a run that has exited has made no feed fetch, no stoplist fetch, no repost, like
\* or follow call, and no step it took changed the ledger file.
C13_EarlyExitDoesNothing ==
    /\ [](pc = "exit" =>
            /\ netlog = {}
            /\ attempts = <<>>
            /\ last = NoCalls)
    /\ [][(pc = "resolve" /\ pc' # "killed" /\ feed_uris' = <<>>) => pc' = "exit"]_vars
    /\ [][pc' = "exit" => pc \in Stopped \cup {"resolve"}]_vars
    /\ [][(pc \in Stopped \cup {"resolve"}) => UNCHANGED fsVars]_vars

\* a run found a ledger file and a feed link, resolved none, and has exited
C13_Witness ==
    /\ pc = "exit"
    /\ run = 1
    /\ loaded # {}
    /\ Ledger = loaded
    /\ PathContent # <<>>

\* C14: a network call that fails does not end the run: no run is ended by a
\* stoplist page fetch or a feed page fetch that raised, so every run that got past
\* the early exits goes on to the loop and the save.
C14_FetchFailureIsNotFatal ==
    ~(pc = "crashed" /\ netlog \cap {"get_list raised", "get_feed raised"} # {})

\* this step is an attempt to repost
Attempted == Len(attempts') = Len(attempts) + 1

\* the loop stands before a candidate
AtCandidate == pc = "loop" /\ ci <= Len(candidates)

\* C15: the global cap stops the loop and the per-author cap only skips.  With
\* MAX_PER_RUN successes no repost is attempted any more and the loop is left; a
\* candidate whose author has MAX_PER_USER successes is passed over with no call
\* and the loop goes to the next candidate; a candidate whose author is under the
\* cap is attempted as long as the global cap is not reached, also after skips.
C15_GlobalCapStopsAuthorCapSkips ==
    /\ [][Attempted => reposted < cfg.MAX_PER_RUN]_vars
    /\ [][(pc = "loop" /\ reposted >= cfg.MAX_PER_RUN) => pc' \in {"save", "killed"}]_vars
    /\ [][(AtCandidate /\ reposted < cfg.MAX_PER_RUN /\ pc' # "killed") =>
            IF Count(per_user, candidates[ci].author_did) >= cfg.MAX_PER_USER
            THEN /\ ~Attempted
                 /\ last'.like = "not called" /\ last'.follow = "not called"
                 /\ done' = done /\ reposted' = reposted
                 /\ pc' = "loop" /\ ci' = ci + 1
            ELSE /\ Attempted
                 /\ attempts'[Len(attempts')].ix = ci
                 /\ pc' = "loop" /\ ci' = ci + 1]_vars
    /\ [](LoopOver /\ reposted < cfg.MAX_PER_RUN =>
            \A i \in DOMAIN candidates :
                i \in TriedIx <=>
                    Cardinality({j \in Of(candidates[i].author_did) \cap DoneIx : j < i})
                        < cfg.MAX_PER_USER)

\* a candidate was passed over for its author's cap and a later candidate of
\* another author was reposted, which filled the global cap
C15_Witness ==
    /\ LoopOver
    /\ reposted = cfg.MAX_PER_RUN
    /\ \E i, j \in DOMAIN candidates :
        /\ i < j
        /\ i \notin TriedIx
        /\ j \in DoneIx
        /\ candidates[i].author_did # candidates[j].author_did

\* the first parseable value of a list of fields, no timestamp when there is none
RECURSIVE FirstParseable(_)
FirstParseable(fields) ==
    IF fields = <<>> THEN NoTime
    ELSE IF Head(fields).k \in {"naive", "aware"} THEN Head(fields)
    ELSE FirstParseable(Tail(fields))

\* C16: for an item that has come to the recency check of the filter chain,
\* parse_time is the first parseable value among the four fields of the record
\* followed by the same four fields of the post, a malformed value counting as
\* absent; so it is no timestamp only if none of the eight fields holds a
\* parseable value.
C16_FirstParseableWins ==
    (Filtered /\ FirstFivePass(feed_item, done)) =>
        parse_time(feed_item.rec_ts, feed_item.post_ts)
            = FirstParseable(feed_item.rec_ts \o feed_item.post_ts)

C18_WrittenOnlyByFinalSave ==
    /\ [][(PathContent' # PathContent \/ dir'[LedgerPath] # dir[LedgerPath]) =>
            (pc = "replace" /\ pc' = "done")]_vars
    /\ [](pc \in Running \cup {"killed"} => Ledger = loaded)
    /\ [](pc = "crashed" /\ netlog # {} => Ledger = loaded)

\* a run that loaded a ledger was killed after its first repost, and the file
\* holds the loaded ledger without the reposted uri
C18_Witness ==
    /\ pc = "killed"
    /\ loaded # {}
    /\ Len(attempts) = 1
    /\ attempts[1].ok
    /\ Ledger = loaded
    /\ attempts[1].c.uri \notin Ledger

\* C19: like and follow come only after a repost that succeeded, and their failure
\* changes nothing of it.  After a successful repost the uri is in the in-memory
\* ledger and both counters have gone up by one whatever like, the profile lookup
\* and follow did, and the loop goes to the next candidate; after a failed repost
\* or a skip neither like nor follow is called; the reposted uri is in the saved
\* ledger.
C19_LikeFollowBestEffort ==
    /\ [][Attempted =>
            LET a == attempts'[Len(attempts')]
            IN  IF a.ok
                THEN /\ a.c.uri \in done'
                     /\ reposted' = reposted + 1
                     /\ Count(per_user', a.c.author_did) = Count(per_user, a.c.author_did) + 1
                     /\ last'.like \in {"liked", "raised"}
                     /\ liked' = IF last'.like = "liked" THEN liked + 1 ELSE liked
                     /\ last'.follow = "not called" <=> ~cfg.FOLLOW_ON_REPOST
                     /\ followed' = IF last'.follow = "followed" THEN followed + 1 ELSE followed
                     /\ pc' = "loop" /\ ci' = ci + 1
                ELSE /\ last'.like = "not called" /\ last'.follow = "not called"
                     /\ liked' = liked /\ followed' = followed]_vars
    /\ [][Skipped =>
            /\ last'.like = "not called" /\ last'.follow = "not called"
            /\ liked' = liked /\ followed' = followed]_vars
    /\ [](pc = "done" => Reposted(attempts) \subseteq Ledger)

\* the like and the follow of a reposted candidate both raised, the next candidate
\* was reposted too, and the saved ledger holds both uris
C19_Witness ==
    /\ pc = "done"
    /\ Len(attempts) = 2
    /\ attempts[1].ok /\ attempts[2].ok
    /\ last.like = "raised"
    /\ last.follow = "create raised"
    /\ liked = 0 /\ followed = 0 /\ reposted = 2
    /\ {attempts[1].c.uri, attempts[2].c.uri} \subseteq Ledger

\* this step fetches pages of a stoplist or of a feed
Fetched == netlog' # netlog /\ netlog' # {}

\* C20: the phases of a run follow one another.  A repost, like or follow call is
\* made only in the loop, when the stoplists and every resolved feed have been
\* fetched and filtered; a fetch is made only before the first of those calls; so
\* a run ended by a fetch that raised has made none of them, and no successful
\* repost is missing from a ledger because of it.
C20_FetchesBeforeActions ==
    /\ [][(Attempted \/ (last' # last /\ last' # NoCalls)) =>
            /\ pc = "loop"
            /\ fi > Len(feed_uris)
            /\ {"get_list", "get_feed"} \subseteq netlog]_vars
    /\ [][Fetched => (attempts = <<>> /\ last = NoCalls)]_vars
    /\ [](netlog \cap {"get_list raised", "get_feed raised"} # {} =>
            /\ pc = "crashed"
            /\ attempts = <<>>
            /\ last = NoCalls)

\* the stoplists were fetched, a feed fetch raised and ended the run, and the run
\* has made no call
C20_Witness ==
    /\ pc = "crashed"
    /\ netlog = {"get_list", "get_feed", "get_feed raised"}
    /\ attempts = <<>>
    /\ last = NoCalls
    /\ Ledger = loaded
    /\ loaded # {}

====
